---------------------------- MODULE Spec2Model ----------------------------
(***************************************************************************)
(* The real-time layer of the dating app's frontend:                      *)
(*   - WebSocketService of contexts/WebSocketContext.tsx (the connection  *)
(*     service: connect / disconnect / reconnect backoff, status and      *)
(*     message observers, sendMessage),                                   *)
(*   - the provider's message handler (handleWebSocketMessage),           *)
(*   - the Chat component (components/Chat/Chat.tsx): its session of      *)
(*     messages, the history loads, the local sends, the typing signal.   *)
(*                                                                         *)
(* A WebSocket is a heap object.  The service keeps one reference (ws),   *)
(* but every socket it ever created keeps the four callbacks connect()    *)
(* installed on it, so a socket that ws no longer refers to still calls   *)
(* back into the service until its close event has been delivered.        *)
(* JavaScript runs one callback at a time: every action below is one      *)
(* whole task (a method call from the application, a socket event, a      *)
(* timer callback).                                                        *)
(*                                                                         *)
(* Status observers return normally (the provider's is a React state      *)
(* setter); a message handler may throw on a frame.  Reconnect and typing *)
(* timers fire at any moment after they are set: delays are recorded, not *)
(* waited for (SpecTyping is the exception: there the typing timer runs   *)
(* when it is due).  fetchChatHistory is two tasks, the call up to its    *)
(* await and the resumption with the server's response; the backend is    *)
(* not part of the sources, so what a response carries is an input.       *)
(***************************************************************************)
EXTENDS Integers, Sequences, FiniteSets, TLC

(***************************************************************************)
(* Bounds of the model (not program constants).                            *)
(***************************************************************************)
\* sockets and reconnect timers that may be alive at once
MaxSockets == 2
\* length of a handler list (each registration appends one entry)
MaxHandlers == 2
\* cap of the ghost counter of consecutive failed cycles
MaxFailures == 6
\* sockets and reconnect timers alive at once where the claims are about the
\* observers, the frames and the chat session
MaxLinks == 1
\* entries of a chat session
MaxMessages == 3
\* milliseconds the clock may advance
MaxTime == 1
\* the last millisecond of the clock where timers are waited for
MaxClock == 2000
\* steps of the clock in one quiet period of the typing indicator
TicksPerDelay == 10
\* fetchChatHistory calls that may await their response at once
MaxFetches == 2
\* the highest page number load-more asks for
MaxPage == 2

(***************************************************************************)
(* Program constants.                                                      *)
(***************************************************************************)
maxReconnectAttempts == 5
baseDelay == 1000
capDelay == 30000
\* the quiet period of the typing indicator, in ms (Chat.tsx 192)
typingDelay == 1000

None == "none"
\* status observers: the provider's setConnectionStatus and one more subscriber
Observers == {"setConnectionStatus", "statusObserver2"}
\* message observers: the provider's handleWebSocketMessage and one more subscriber
Handlers == {"handleWebSocketMessage", "messageHandler2"}
\* what a frame's event.data holds: JSON of an envelope of some type, or text
\* JSON.parse rejects
Frames == {"chat_message", "unknown_kind", "malformed"}
\* an envelope of the server acknowledging the chat message sent last: it
\* carries that message's tempId and its durable id
Acks == {"message_ack"}
\* the handlers that may throw on a frame: the body of handleWebSocketMessage
\* (159-180) cannot
Throwers == Handlers \ {"handleWebSocketMessage"}
Statuses == {"connecting", "connected", "disconnected", "error"}

SocketIds == 1..MaxSockets
PageNums == 1..MaxPage

VARIABLES
    \* ---- WebSocketService fields
    sockets,                  \* heap: socket id -> state of that WebSocket
    ws,                       \* this.ws: a socket id, or 0 for null
    messageHandlers,          \* this.messageHandlers
    reconnectAttempts,        \* this.reconnectAttempts
    reconnectTimeout,         \* this.reconnectTimeout: "null", "pending", "done"
    orphanTimers,             \* pending reconnect timers this.reconnectTimeout lost
    connectionStatusHandlers, \* this.connectionStatusHandlers
    \* ---- what the last task did (its observable effects)
    lastOp,                   \* the task that ran last
    at,                       \* the time (Date.now()) at which it ran
    emitted,                  \* statuses passed to updateStatus, in order
    delivered,                \* <<observer, status>> calls made, in order
    scheduled,                \* delay of the setTimeout made, 0 if none
    opened,                   \* TRUE iff a WebSocket was constructed
    transmitted,              \* envelopes handed to ws.send, in order
    sendResult,               \* what sendMessage returned
    invoked,                  \* message handlers called for the frame, in order
    frame,                    \* the frame the last onmessage received
    submitted,                \* envelopes passed to sendMessage, in order
    added,                    \* envelopes passed to the provider's addMessage
    response,                 \* the history response the task resumed with
    signalled,                \* the text passed to the Chat's setError, "" if none
    threw,                    \* the message handlers that threw in the task
    \* ---- history
    status,                   \* last status passed to updateStatus
    explicitlyClosed,         \* disconnect() called, connect() not called since
    failures,                 \* attemptReconnect calls since the last onopen
    lastSignal,               \* last typing signal handed to sendMessage, "" if none
    \* ---- the Chat component (components/Chat/Chat.tsx)
    messages,                 \* useState<Message[]>: the session sequence
    newMessage,               \* useState(''): the input's text
    isTyping,                 \* useState(false)
    typingTimeout,            \* typingTimeoutRef.current: "null", "pending", "done"
    now,                      \* Date.now(), in ms since the component mounted
    page,                     \* useState(1)
    hasMoreMessages,          \* useState(true)
    isLoading,                \* useState(true)
    inflight,                 \* pageNum -> fetchChatHistory(pageNum) calls awaiting their response
    typingDue                 \* when the pending typing timer is due, 0 if none is pending

svcVars == <<sockets, ws, messageHandlers, reconnectAttempts, reconnectTimeout,
             orphanTimers, connectionStatusHandlers>>
stepVars == <<lastOp, at, emitted, delivered, scheduled, opened, transmitted,
              sendResult, invoked, frame, submitted, added, response, signalled,
              threw>>
histVars == <<status, explicitlyClosed, failures, lastSignal>>
typingVars == <<newMessage, isTyping, typingTimeout, typingDue>>
historyVars == <<page, hasMoreMessages, isLoading, inflight>>
chatVars == <<messages, typingVars, now, historyVars>>
vars == <<svcVars, stepVars, histVars, chatVars>>

Min(a, b) == IF a < b THEN a ELSE b

\* WebSocket.readyState of a socket state: "FAILING" is a socket closed by
\* close() before its handshake finished (readyState CLOSING, connection failed)
readyState(st) == IF st = "FAILING" THEN "CLOSING" ELSE st

\* sockets whose callbacks can still run
Live(s) == sockets[s] \in {"CONNECTING", "OPEN", "CLOSING", "FAILING"}

PendingTimers == orphanTimers + (IF reconnectTimeout = "pending" THEN 1 ELSE 0)

LiveUnits == Cardinality({s \in SocketIds : Live(s)}) + PendingTimers

\* a heap slot for a new WebSocket: unused, or holding the closed socket
\* this.ws refers to, which nothing refers to once this.ws is reassigned
Free(s) == sockets[s] = "NONE" \/ (s = ws /\ sockets[s] = "CLOSED")

\* the heap once the socket in slot s has closed: a closed socket fires no
\* more events, so it stays on the heap only while this.ws refers to it
closed(s) == [sockets EXCEPT ![s] = IF s = ws THEN "CLOSED" ELSE "NONE"]

NewSocket == CHOOSE s \in SocketIds : Free(s) /\ \A t \in SocketIds : Free(t) => s <= t

\* the heap after `this.ws = new WebSocket(url)`: the new socket is connecting,
\* and a closed socket this.ws referred to is garbage
withNewSocket ==
    [s \in SocketIds |-> IF s = NewSocket THEN "CONNECTING"
                         ELSE IF Free(s) THEN "NONE" ELSE sockets[s]]


(***************************************************************************)
(* Init: the service as constructed (WebSocketContext.tsx 35-40); the     *)
(* provider's connectionStatus starts as 'disconnected' (line 144).       *)
(***************************************************************************)
Init ==
    /\ sockets = [s \in SocketIds |-> "NONE"]
    /\ ws = 0
    /\ messageHandlers = <<>>
    /\ reconnectAttempts = 0
    /\ reconnectTimeout = "null"
    /\ orphanTimers = 0
    /\ connectionStatusHandlers = <<>>
    /\ lastOp = "init"
    /\ at = 0
    /\ emitted = <<>>
    /\ delivered = <<>>
    /\ scheduled = 0
    /\ opened = FALSE
    /\ transmitted = <<>>
    /\ sendResult = FALSE
    /\ invoked = <<>>
    /\ frame = None
    /\ submitted = <<>>
    /\ added = <<>>
    /\ response = <<>>
    /\ signalled = ""
    /\ threw = <<>>
    /\ lastSignal = ""
    /\ status = "disconnected"
    /\ explicitlyClosed = FALSE
    /\ failures = 0
    /\ messages = <<>>
    /\ newMessage = ""
    /\ isTyping = FALSE
    /\ typingTimeout = "null"
    /\ now = 0
    /\ page = 1
    /\ hasMoreMessages = TRUE
    /\ isLoading = TRUE
    /\ inflight = [n \in PageNums |-> 0]
    /\ typingDue = 0

(***************************************************************************)
(* Helpers shared by the tasks.                                            *)
(***************************************************************************)
\* a faulty updateStatus: only the first handler of the list is called
updateStatusFirstOnly(handlers, st) ==
    IF handlers = <<>> THEN <<>> ELSE << <<handlers[1], st>> >>

\* updateStatus(status): every handler of the list is called, in list order
updateStatus(handlers, st) == [i \in 1..Len(handlers) |-> <<handlers[i], st>>]

\* the calls made by a run of updateStatus calls on one handler list
RECURSIVE updateAll(_, _)
updateAll(handlers, sts) ==
    IF sts = <<>> THEN <<>>
    ELSE updateStatus(handlers, Head(sts)) \o updateAll(handlers, Tail(sts))

\* a faulty delay: linear in the attempt, not exponential
reconnectDelayLinear(n) == Min(baseDelay * n, capDelay)

\* Math.min(1000 * Math.pow(2, attempts), 30000)
reconnectDelay(n) == Min(baseDelay * 2^n, capDelay)

\* a faulty guard: one attempt too many
mayReconnectOnceMore == reconnectAttempts <= maxReconnectAttempts

\* the guard of attemptReconnect
mayReconnect == reconnectAttempts < maxReconnectAttempts

\* a faulty guard: readyState is not looked at
wsIsSet == ws # 0

\* the guard of sendMessage: this.ws && this.ws.readyState === WebSocket.OPEN
wsIsOpen == ws # 0 /\ readyState(sockets[ws]) = "OPEN"

\* the typing signal handed to sendMessage last: the last one of the task's
\* submissions, else the one before the task
lastTyping(subs, before) ==
    LET typing == SelectSeq(subs, LAMBDA m : m \in {"typing_true", "typing_false"})
    IN  IF typing = <<>> THEN before ELSE typing[Len(typing)]

\* the effects of a task that calls nothing
Quiet ==
    [emitted |-> <<>>, handlers |-> <<>>, scheduled |-> 0, opened |-> FALSE,
     transmitted |-> <<>>, sendResult |-> FALSE, invoked |-> <<>>, frame |-> None,
     submitted |-> <<>>, added |-> <<>>, response |-> <<>>, signalled |-> "",
     threw |-> <<>>, elapsed |-> 0]

\* what the task did: fx names the effects it had, the others are those of
\* Quiet (elapsed: the ms the clock advances in the step); the step variables
\* and the history they feed
Effects(op, fx) ==
    LET e == fx @@ Quiet
    IN  /\ lastOp' = op
        /\ at' = now + e.elapsed
        /\ emitted' = e.emitted
        /\ delivered' = updateAll(e.handlers, e.emitted)
        /\ scheduled' = e.scheduled
        /\ opened' = e.opened
        /\ transmitted' = e.transmitted
        /\ sendResult' = e.sendResult
        /\ invoked' = e.invoked
        /\ frame' = e.frame
        /\ submitted' = e.submitted
        /\ added' = e.added
        /\ response' = e.response
        /\ signalled' = e.signalled
        /\ threw' = e.threw
        /\ status' = IF e.emitted = <<>> THEN status ELSE e.emitted[Len(e.emitted)]
        /\ lastSignal' = lastTyping(e.submitted, lastSignal)

\* the effects of a task of the connection service
Report(op, em, sch, opn, tx, res, inv, fr, handlers) ==
    Effects(op, [emitted |-> em, handlers |-> handlers, scheduled |-> sch,
                 opened |-> opn, transmitted |-> tx, sendResult |-> res,
                 invoked |-> inv, frame |-> fr])

\* a task that only changes the service's fields
Silent(op) == Report(op, <<>>, 0, FALSE, <<>>, FALSE, <<>>, None, <<>>)

(***************************************************************************)
(* connect(token, onStatusChange?)   WebSocketContext.tsx 42-81            *)
(* o is the observer passed (None when omitted); ctorThrows says whether  *)
(* `new WebSocket(url)` throws.  The fields other than the handler list,  *)
(* ws and the heap are left alone.                                         *)
(***************************************************************************)
connect(op, o, ctorThrows) ==
    LET handlers == IF o = None THEN connectionStatusHandlers
                    ELSE Append(connectionStatusHandlers, o)
    IN  /\ connectionStatusHandlers' = handlers
        /\ IF ctorThrows
           THEN /\ UNCHANGED <<sockets, ws>>
                /\ Report(op, <<"connecting", "error">>, 0, FALSE, <<>>, FALSE,
                          <<>>, None, handlers)
           ELSE /\ sockets' = withNewSocket
                /\ ws' = NewSocket
                /\ Report(op, <<"connecting">>, 0, TRUE, <<>>, FALSE,
                          <<>>, None, handlers)

\* the application calls connect: the provider's token effect (192-201) and
\* reconnect() (152-156); the call is made whatever the connection's state
Connect(o, ctorThrows, bound) ==
    /\ LiveUnits < bound
    /\ o # None => Len(connectionStatusHandlers) < MaxHandlers
    /\ connect("connect", o, ctorThrows)
    /\ explicitlyClosed' = FALSE
    /\ UNCHANGED <<messageHandlers, reconnectAttempts, reconnectTimeout,
                   orphanTimers, failures>>
    /\ UNCHANGED chatVars

(***************************************************************************)
(* attemptReconnect(token)   WebSocketContext.tsx 87-100                   *)
(***************************************************************************)
attemptReconnect ==
    /\ failures' = Min(failures + 1, MaxFailures)
    /\ IF mayReconnect
       THEN /\ reconnectAttempts' = reconnectAttempts + 1
            /\ reconnectTimeout' = "pending"
            /\ orphanTimers' = orphanTimers
                               + (IF reconnectTimeout = "pending" THEN 1 ELSE 0)
       ELSE UNCHANGED <<reconnectAttempts, reconnectTimeout, orphanTimers>>

\* the delay attemptReconnect hands to setTimeout, 0 when it schedules nothing
attemptDelay == IF mayReconnect THEN reconnectDelay(reconnectAttempts + 1) ELSE 0

\* the setTimeout callback of attemptReconnect (94-96): connect(token).
\* `referenced` says whether the timer firing is the one this.reconnectTimeout
\* holds; the field is not reset when its timer fires.
ReconnectTimerFires(referenced, ctorThrows) ==
    /\ IF referenced
       THEN /\ reconnectTimeout = "pending"
            /\ reconnectTimeout' = "done"
            /\ UNCHANGED orphanTimers
       ELSE /\ orphanTimers > 0
            /\ orphanTimers' = orphanTimers - 1
            /\ UNCHANGED reconnectTimeout
    /\ connect("timer", None, ctorThrows)
    /\ UNCHANGED <<messageHandlers, reconnectAttempts, explicitlyClosed, failures>>
    /\ UNCHANGED chatVars

(***************************************************************************)
(* Socket events.  The callbacks are installed on every socket connect()  *)
(* creates and are never removed.                                          *)
(***************************************************************************)
\* a faulty onopen: the attempt counter keeps its value
SocketOpenKeepsAttempts(s) ==
    /\ sockets[s] = "CONNECTING"
    /\ sockets' = [sockets EXCEPT ![s] = "OPEN"]
    /\ failures' = 0
    /\ Report("onopen", <<"connected">>, 0, FALSE, <<>>, FALSE, <<>>, None,
              connectionStatusHandlers)
    /\ UNCHANGED <<ws, messageHandlers, reconnectAttempts, reconnectTimeout,
                   orphanTimers, connectionStatusHandlers, explicitlyClosed>>
    /\ UNCHANGED chatVars

\* a faulty onopen: the chat messages still 'sending' are sent again
SocketOpenResends(s) ==
    /\ sockets[s] = "CONNECTING"
    /\ sockets' = [sockets EXCEPT ![s] = "OPEN"]
    /\ reconnectAttempts' = 0
    /\ failures' = 0
    /\ Effects("onopen",
               [emitted |-> <<"connected">>, handlers |-> connectionStatusHandlers,
                transmitted |-> [i \in 1..Len(messages) |-> "chat_message"]])
    /\ UNCHANGED <<ws, messageHandlers, reconnectTimeout, orphanTimers,
                   connectionStatusHandlers, explicitlyClosed>>
    /\ UNCHANGED chatVars

\* ws.onopen (52-56)
SocketOpen(s) ==
    /\ sockets[s] = "CONNECTING"
    /\ sockets' = [sockets EXCEPT ![s] = "OPEN"]
    /\ reconnectAttempts' = 0
    /\ failures' = 0
    /\ Report("onopen", <<"connected">>, 0, FALSE, <<>>, FALSE, <<>>, None,
              connectionStatusHandlers)
    /\ UNCHANGED <<ws, messageHandlers, reconnectTimeout, orphanTimers,
                   connectionStatusHandlers, explicitlyClosed>>
    /\ UNCHANGED chatVars

\* ws.onclose (67-71) after a clean closure: the peer closed an open socket, or
\* the closing handshake close() started has finished
SocketClose(s) ==
    /\ sockets[s] \in {"OPEN", "CLOSING"}
    /\ sockets' = closed(s)
    /\ attemptReconnect
    /\ Report("onclose", <<"disconnected">>, attemptDelay, FALSE, <<>>, FALSE,
              <<>>, None, connectionStatusHandlers)
    /\ UNCHANGED <<ws, messageHandlers, connectionStatusHandlers, explicitlyClosed>>
    /\ UNCHANGED chatVars

\* a failed connection: the handshake failed, the link dropped, or close() was
\* called before the handshake finished.  The browser fires error and then
\* close in one task: ws.onerror (73-76), then ws.onclose (67-71).
SocketFail(s) ==
    /\ sockets[s] \in {"CONNECTING", "OPEN", "CLOSING", "FAILING"}
    /\ sockets' = closed(s)
    /\ attemptReconnect
    /\ Report("onerror", <<"error", "disconnected">>, attemptDelay, FALSE, <<>>,
              FALSE, <<>>, None, connectionStatusHandlers)
    /\ UNCHANGED <<ws, messageHandlers, connectionStatusHandlers, explicitlyClosed>>
    /\ UNCHANGED chatVars

\* a faulty onmessage: the frame is handed to the handlers without parsing it
dispatchUnparsed(handlers, fr, th) ==
    LET stop == {i \in 1..Len(handlers) : handlers[i] \in th}
        last == IF stop = {} THEN Len(handlers)
                ELSE CHOOSE i \in stop : \A j \in stop : i <= j
    IN  SubSeq(handlers, 1, last)

\* the handlers ws.onmessage (58-65) calls for a frame: none if JSON.parse
\* throws; otherwise the list in order, up to and including the first handler
\* that throws (the forEach is inside the try block)
dispatch(handlers, fr, th) ==
    IF fr = "malformed" THEN <<>>
    ELSE LET stop == {i \in 1..Len(handlers) : handlers[i] \in th}
             last == IF stop = {} THEN Len(handlers)
                     ELSE CHOOSE i \in stop : \A j \in stop : i <= j
         IN  SubSeq(handlers, 1, last)

\* the handler whose exception ended the forEach of ws.onmessage (58-65), if any
thrower(handlers, fr, th) ==
    LET called == dispatch(handlers, fr, th)
    IN  IF called # <<>> /\ called[Len(called)] \in th
        THEN <<called[Len(called)]>> ELSE <<>>

\* handleWebSocketMessage (159-180), once per call made to it: addMessage(message)
\* (148-150), then a switch whose every case does nothing
handleWebSocketMessage(calls, fr) ==
    [i \in 1..Len(SelectSeq(calls, LAMBDA h : h = "handleWebSocketMessage")) |-> fr]

\* ws.onmessage (58-65)
SocketMessage(s, fr, th) ==
    /\ sockets[s] = "OPEN"
    /\ Effects("onmessage",
               [invoked |-> dispatch(messageHandlers, fr, th), frame |-> fr,
                added |-> handleWebSocketMessage(dispatch(messageHandlers, fr, th), fr),
                threw |-> thrower(messageHandlers, fr, th)])
    /\ UNCHANGED <<svcVars, explicitlyClosed, failures>>
    /\ UNCHANGED chatVars

(***************************************************************************)
(* disconnect()   WebSocketContext.tsx 102-114                             *)
(***************************************************************************)
disconnect ==
    /\ reconnectTimeout' = "null"
    /\ sockets' = IF ws = 0 THEN sockets
                  ELSE [sockets EXCEPT ![ws] =
                          CASE sockets[ws] = "CONNECTING" -> "FAILING"
                            [] sockets[ws] = "OPEN" -> "CLOSING"
                            [] OTHER -> "NONE"]
    /\ ws' = 0
    /\ connectionStatusHandlers' = <<>>

Disconnect ==
    /\ disconnect
    /\ explicitlyClosed' = TRUE
    /\ Silent("disconnect")
    /\ UNCHANGED <<messageHandlers, reconnectAttempts, orphanTimers, failures>>
    /\ UNCHANGED chatVars

(***************************************************************************)
(* sendMessage(message)   WebSocketContext.tsx 116-122                     *)
(***************************************************************************)
sendMessage(op, m) ==
    Effects(op, [transmitted |-> IF wsIsOpen THEN <<m>> ELSE <<>>,
                 sendResult |-> wsIsOpen, submitted |-> <<m>>])

SendMessage(m) ==
    /\ sendMessage("sendMessage", m)
    /\ UNCHANGED <<svcVars, explicitlyClosed, failures>>
    /\ UNCHANGED chatVars

(***************************************************************************)
(* Observer registration   WebSocketContext.tsx 124-138                    *)
(***************************************************************************)
RECURSIVE without(_, _)
without(list, h) ==
    IF list = <<>> THEN <<>>
    ELSE IF Head(list) = h THEN without(Tail(list), h)
    ELSE <<Head(list)>> \o without(Tail(list), h)

setOnMessageHandler(h) ==
    /\ Len(messageHandlers) < MaxHandlers
    /\ messageHandlers' = Append(messageHandlers, h)
    /\ Silent("setOnMessageHandler")
    /\ UNCHANGED <<sockets, ws, reconnectAttempts, reconnectTimeout, orphanTimers,
                   connectionStatusHandlers, explicitlyClosed, failures>>
    /\ UNCHANGED chatVars

removeMessageHandler(h) ==
    /\ messageHandlers' = without(messageHandlers, h)
    /\ Silent("removeMessageHandler")
    /\ UNCHANGED <<sockets, ws, reconnectAttempts, reconnectTimeout, orphanTimers,
                   connectionStatusHandlers, explicitlyClosed, failures>>
    /\ UNCHANGED chatVars

setOnStatusChangeHandler(o) ==
    /\ Len(connectionStatusHandlers) < MaxHandlers
    /\ connectionStatusHandlers' = Append(connectionStatusHandlers, o)
    /\ Silent("setOnStatusChangeHandler")
    /\ UNCHANGED <<sockets, ws, reconnectAttempts, reconnectTimeout, orphanTimers,
                   messageHandlers, explicitlyClosed, failures>>
    /\ UNCHANGED chatVars

removeStatusChangeHandler(o) ==
    /\ connectionStatusHandlers' = without(connectionStatusHandlers, o)
    /\ Silent("removeStatusChangeHandler")
    /\ UNCHANGED <<sockets, ws, reconnectAttempts, reconnectTimeout, orphanTimers,
                   messageHandlers, explicitlyClosed, failures>>
    /\ UNCHANGED chatVars

(***************************************************************************)
(* The Chat component   components/Chat/Chat.tsx                           *)
(* Its sendMessage is the provider's (WebSocketContext.tsx 203-205), which *)
(* returns webSocketService.sendMessage(message).                          *)
(***************************************************************************)
\* const tempId = Date.now().toString()   (108, 225)
tempId == now

\* the Message handleSendMessage (109-116) and handleFileUpload (226-233) build
localMessage(content, type) ==
    [id |-> tempId, sender |-> "currentUserId", content |-> content,
     timestamp |-> now, status |-> "sending", type |-> type]

\* clearTimeout(typingTimeoutRef.current): the ref keeps the stale timer id
clearTyping == IF typingTimeout = "pending" THEN "done" ELSE typingTimeout

\* handleSendMessage (105-149).  sendMessage does not throw, so the catch
\* block (133-142) never runs.
handleSendMessage ==
    /\ newMessage = "text"
    /\ Len(messages) < MaxMessages
    /\ messages' = Append(messages, localMessage(newMessage, "text"))
    /\ newMessage' = ""
    /\ sendMessage("handleSendMessage", "chat_message")
    /\ typingTimeout' = clearTyping
    /\ typingDue' = 0
    /\ isTyping' = FALSE
    /\ UNCHANGED <<svcVars, explicitlyClosed, failures, now, historyVars>>

\* handleFileUpload (217-241), a file having been chosen
handleFileUpload ==
    /\ Len(messages) < MaxMessages
    /\ messages' = Append(messages, localMessage("file", "file"))
    /\ Silent("handleFileUpload")
    /\ UNCHANGED <<svcVars, explicitlyClosed, failures, typingVars, now, historyVars>>

\* a faulty guard: typing(true) is sent on every change
startsTypingAlways == TRUE

\* the guard of the typing(true) signal: if (!isTyping)   (162)
startsTyping == ~isTyping

\* handleTyping (151-208), the input's onChange: value is the input's new
\* text, "", "blank" (white space only) or "text"; an empty input cannot
\* change to the empty text
handleTyping(value) ==
    /\ value = "" => newMessage # ""
    /\ newMessage' = value
    /\ IF value # ""
       THEN /\ isTyping' = TRUE
            /\ typingTimeout' = "pending"
            /\ typingDue' = now + typingDelay
            /\ IF startsTyping
               THEN sendMessage("handleTyping", "typing_true")
               ELSE Silent("handleTyping")
       ELSE /\ isTyping' = FALSE
            /\ typingTimeout' = clearTyping
            /\ typingDue' = 0
            /\ sendMessage("handleTyping", "typing_false")
    /\ UNCHANGED <<svcVars, explicitlyClosed, failures, messages, now, historyVars>>

\* the setTimeout callback of handleTyping (178-192)
TypingTimerFires ==
    /\ typingTimeout = "pending"
    /\ typingTimeout' = "done"
    /\ typingDue' = 0
    /\ isTyping' = FALSE
    /\ sendMessage("typingTimer", "typing_false")
    /\ UNCHANGED <<svcVars, explicitlyClosed, failures, messages, newMessage, now,
                   historyVars>>

\* a millisecond passes
Tick ==
    /\ now < MaxTime
    /\ now' = now + 1
    /\ Effects("tick", [elapsed |-> 1])
    /\ UNCHANGED <<svcVars, explicitlyClosed, failures, messages, typingVars,
                   historyVars>>

(***************************************************************************)
(* The typing indicator with its timer waited for: the callback runs when *)
(* the 1000 ms setTimeout was given have passed, and the clock does not   *)
(* pass that moment before it has run.  Time passing is not a task: it    *)
(* leaves what the last task did as it is.                                 *)
(***************************************************************************)
clockStep == typingDelay \div TicksPerDelay

\* the clock advances by d ms
Advance(d) ==
    /\ d > 0
    /\ now + d <= MaxClock
    /\ typingTimeout = "pending" => now + d <= typingDue
    /\ now' = now + d
    /\ UNCHANGED <<svcVars, stepVars, histVars, messages, typingVars, historyVars>>

\* the setTimeout callback of handleTyping (178-192), run when it is due
TypingTimerElapses ==
    /\ now = typingDue
    /\ TypingTimerFires

(***************************************************************************)
(* Chat history   components/Chat/Chat.tsx 53-99                           *)
(* chatAPI.getChatHistory(sessionId) (services/api.ts) sends the same     *)
(* request whatever pageNum is; what the server answers is an input.      *)
(***************************************************************************)
currentUserId == "currentUserId"

\* the k-th message of the server's archive, as the response carries it
serverMessage(k) ==
    [id |-> 100 + k, sender |-> IF k % 2 = 1 THEN currentUserId ELSE "otherUserId",
     content |-> "text", timestamp |-> k - 10, type |-> "text"]

\* the pages a response may carry: none, one or both messages of an archive
\* of two
Pages == {<<>>, <<serverMessage(1)>>, <<serverMessage(1), serverMessage(2)>>}

\* what the awaited call may produce: data with messages and has_more, data
\* without messages, or a rejection
Responses ==
    [kind : {"ok"}, messages : Pages, has_more : BOOLEAN]
    \cup [kind : {"nodata", "rejected"}, messages : {<<>>}, has_more : {FALSE}]

\* a faulty status: own messages are 'delivered' on the first page only
historyStatusFirstPage(sender) ==
    IF sender = currentUserId
    THEN (IF page = 1 THEN "delivered" ELSE "sent")
    ELSE "undefined"

\* status: msg.sender.toString() === currentUserId ? 'delivered' : undefined  (75)
historyStatus(sender) == IF sender = currentUserId THEN "delivered" ELSE "undefined"

\* response.data.messages.map(...) (71-76)
newMessages(msgs) ==
    [i \in 1..Len(msgs) |->
        [id |-> msgs[i].id, sender |-> msgs[i].sender, content |-> msgs[i].content,
         timestamp |-> msgs[i].timestamp, status |-> historyStatus(msgs[i].sender),
         type |-> msgs[i].type]]

\* the session after a page was received (78-82)
mergePage(prev, new, pageNum) == IF pageNum = 1 THEN new ELSE new \o prev

\* the fetchChatHistory calls awaiting their response
Awaiting == LET RECURSIVE sum(_)
                sum(n) == IF n = 0 THEN 0 ELSE inflight[n] + sum(n - 1)
            IN  sum(MaxPage)

\* fetchChatHistory(pageNum) up to its await (63-68)
fetchChatHistory(op, pageNum) ==
    /\ Awaiting < MaxFetches
    /\ isLoading' = TRUE
    /\ inflight' = [inflight EXCEPT ![pageNum] = @ + 1]
    /\ Silent(op)
    /\ UNCHANGED <<svcVars, explicitlyClosed, failures, messages, typingVars, now,
                   page, hasMoreMessages>>

\* the effect on [chatSessionId, user] (53-57): fetchChatHistory()
HistoryEffect == fetchChatHistory("historyEffect", 1)

\* loadMoreMessages (95-99)
loadMoreMessages ==
    /\ hasMoreMessages /\ ~isLoading
    /\ page < MaxPage
    /\ fetchChatHistory("loadMoreMessages", page + 1)

\* fetchChatHistory from its await on (68-92): a call made with pageNum
\* resumes with the response r
FetchResumes(pageNum, r) ==
    /\ inflight[pageNum] > 0
    /\ inflight' = [inflight EXCEPT ![pageNum] = @ - 1]
    /\ isLoading' = FALSE
    /\ IF r.kind = "ok"
       THEN /\ Len(mergePage(messages, newMessages(r.messages), pageNum)) <= MaxMessages
            /\ messages' = mergePage(messages, newMessages(r.messages), pageNum)
            /\ hasMoreMessages' = r.has_more
            /\ page' = pageNum
       ELSE UNCHANGED <<messages, hasMoreMessages, page>>
    /\ Effects("fetchChatHistory",
               [response |-> <<r>>,
                signalled |-> IF r.kind = "rejected"
                              THEN "Failed to load chat history." ELSE ""])
    /\ UNCHANGED <<svcVars, explicitlyClosed, failures, typingVars, now>>

(***************************************************************************)
(* The program under every interleaving of its callers, its sockets'     *)
(* events and its timers.                                                  *)
(***************************************************************************)
Next ==
    \/ \E o \in Observers \cup {None}, t \in BOOLEAN : Connect(o, t, MaxSockets)
    \/ \E r \in BOOLEAN, t \in BOOLEAN : ReconnectTimerFires(r, t)
    \/ \E s \in SocketIds : SocketOpen(s)
    \/ \E s \in SocketIds : SocketClose(s)
    \/ \E s \in SocketIds : SocketFail(s)
    \/ \E s \in SocketIds, fr \in Frames, th \in SUBSET Throwers : SocketMessage(s, fr, th)
    \/ Disconnect
    \/ \E m \in {"chat_message", "typing_indicator"} : SendMessage(m)
    \/ \E h \in Handlers : setOnMessageHandler(h)
    \/ \E h \in Handlers : removeMessageHandler(h)
    \/ \E o \in Observers : setOnStatusChangeHandler(o)
    \/ \E o \in Observers : removeStatusChangeHandler(o)
    \/ handleSendMessage
    \/ handleFileUpload
    \/ \E v \in {"", "blank", "text"} : handleTyping(v)
    \/ TypingTimerFires
    \/ Tick
    \/ HistoryEffect
    \/ loadMoreMessages
    \/ \E n \in PageNums, r \in Responses : FetchResumes(n, r)

\* The whole program.  Each claim is checked under the specification of the
\* tasks it is about: SpecConn, SpecObs, SpecMsg, SpecChat below.
Spec == Init /\ [][Next]_vars

NextConn ==
    \/ \E t \in BOOLEAN : Connect(None, t, MaxSockets)
    \/ \E r \in BOOLEAN, t \in BOOLEAN : ReconnectTimerFires(r, t)
    \/ \E s \in SocketIds : SocketOpen(s)
    \/ \E s \in SocketIds : SocketClose(s)
    \/ \E s \in SocketIds : SocketFail(s)
    \/ Disconnect

SpecConn == Init /\ [][NextConn]_vars

NextObs ==
    \/ \E o \in Observers \cup {None}, t \in BOOLEAN : Connect(o, t, MaxLinks)
    \/ \E r \in BOOLEAN, t \in BOOLEAN : ReconnectTimerFires(r, t)
    \/ \E s \in SocketIds : SocketOpen(s)
    \/ \E s \in SocketIds : SocketClose(s)
    \/ \E s \in SocketIds : SocketFail(s)
    \/ Disconnect
    \/ \E o \in Observers : setOnStatusChangeHandler(o)
    \/ \E o \in Observers : removeStatusChangeHandler(o)

SpecObs == Init /\ [][NextObs]_vars

TypeOK ==
    /\ sockets \in [SocketIds -> {"NONE", "CONNECTING", "OPEN", "CLOSING", "FAILING", "CLOSED"}]
    /\ ws \in 0..MaxSockets
    /\ reconnectAttempts \in 0..maxReconnectAttempts
    /\ reconnectTimeout \in {"null", "pending", "done"}
    /\ orphanTimers \in 0..MaxSockets
    /\ LiveUnits <= MaxSockets
    /\ Len(connectionStatusHandlers) <= MaxHandlers
    /\ Len(messageHandlers) <= MaxHandlers
    /\ status \in Statuses
    /\ Len(messages) <= MaxMessages
    /\ now \in 0..MaxClock
    /\ at \in 0..now
    /\ page \in PageNums
    /\ inflight \in [PageNums -> 0..MaxFetches]
    /\ Awaiting <= MaxFetches
    /\ typingDue \in 0..(MaxClock + typingDelay)

NextMsg ==
    \/ \E t \in BOOLEAN : Connect(None, t, MaxLinks)
    \/ \E r \in BOOLEAN, t \in BOOLEAN : ReconnectTimerFires(r, t)
    \/ \E s \in SocketIds : SocketOpen(s)
    \/ \E s \in SocketIds : SocketClose(s)
    \/ \E s \in SocketIds : SocketFail(s)
    \/ \E s \in SocketIds, fr \in Frames, th \in SUBSET Throwers : SocketMessage(s, fr, th)
    \/ Disconnect
    \/ \E m \in {"chat_message", "typing_indicator"} : SendMessage(m)
    \/ \E h \in Handlers : setOnMessageHandler(h)
    \/ \E h \in Handlers : removeMessageHandler(h)

SpecMsg == Init /\ [][NextMsg]_vars

\* The chat session beside one connection: the provider connects when no
\* socket and no reconnect timer is alive.
NextChat ==
    \/ \E t \in BOOLEAN : LiveUnits = 0 /\ Connect(None, t, MaxSockets)
    \/ \E r \in BOOLEAN, t \in BOOLEAN : ReconnectTimerFires(r, t)
    \/ \E s \in SocketIds : SocketOpen(s)
    \/ \E s \in SocketIds : SocketFail(s)
    \/ handleSendMessage
    \/ handleFileUpload
    \/ \E v \in {"", "blank", "text"} : handleTyping(v)
    \/ TypingTimerFires
    \/ Tick

SpecChat == Init /\ [][NextChat]_vars

\* The chat session: history loads, load-more and local sends.
NextHist ==
    \/ HistoryEffect
    \/ loadMoreMessages
    \/ \E n \in PageNums, r \in Responses : FetchResumes(n, r)
    \/ handleTyping("text")
    \/ handleSendMessage
    \/ handleFileUpload
    \/ Tick

SpecHist == Init /\ [][NextHist]_vars

\* A local send and the server's acknowledgment: the provider has registered
\* handleWebSocketMessage (183) and connects when nothing is alive.
NextAck ==
    \/ setOnMessageHandler("handleWebSocketMessage")
    \/ \E t \in BOOLEAN : LiveUnits = 0 /\ Connect(None, t, MaxSockets)
    \/ \E r \in BOOLEAN, t \in BOOLEAN : ReconnectTimerFires(r, t)
    \/ \E s \in SocketIds : SocketOpen(s)
    \/ \E s \in SocketIds : SocketFail(s)
    \/ \E s \in SocketIds, fr \in Acks : SocketMessage(s, fr, {})
    \/ handleTyping("text")
    \/ handleSendMessage
    \/ Tick

SpecAck == Init /\ [][NextAck]_vars

\* The typing indicator in real time: input changes, the quiet-period timer
\* and the clock, which advances by a step or up to the moment the timer is due.
NextTyping ==
    \/ \E v \in {"", "blank", "text"} : handleTyping(v)
    \/ TypingTimerElapses
    \/ \E d \in {clockStep, typingDue - now} : Advance(d)

SpecTyping == Init /\ [][NextTyping]_vars

\* The statuses of the session's entries: the tasks that write a status.
NextStatus ==
    \/ HistoryEffect
    \/ loadMoreMessages
    \/ \E n \in PageNums, r \in Responses : FetchResumes(n, r)
    \/ handleTyping("text")
    \/ handleSendMessage
    \/ Tick

SpecStatus == Init /\ [][NextStatus]_vars

(***************************************************************************)
(* Vocabulary of the claims.                                               *)
(***************************************************************************)
\* the tasks that run ws.onclose: an unexpected drop or a failed attempt
Drops == {"onclose", "onerror"}

\* the connection's state as the transport this.ws refers to shows it
Connecting == ws # 0 /\ sockets[ws] = "CONNECTING"
Connected == ws # 0 /\ sockets[ws] = "OPEN"

\* transports, connecting or open, whose events reach the service
LiveTransports == {s \in SocketIds : sockets[s] \in {"CONNECTING", "OPEN"}}

\* the transition table of the connection states (Closed is entered from any
\* state by disconnect(); a failed attempt leaves Connecting for Disconnected)
TransitionTable ==
    {<<"disconnected", "connecting">>, <<"closed", "connecting">>,
     <<"connecting", "connected">>, <<"connected", "disconnected">>,
     <<"connecting", "disconnected">>}
    \cup {<<st, "closed">> : st \in Statuses}

IsWalk(trace) == \A i \in 1..(Len(trace) - 1) : <<trace[i], trace[i + 1]>> \in TransitionTable

\* the statuses one observer was called with, in call order
RECURSIVE Received(_, _)
Received(calls, o) ==
    IF calls = <<>> THEN <<>>
    ELSE (IF Head(calls)[1] = o THEN <<Head(calls)[2]>> ELSE <<>>)
         \o Received(Tail(calls), o)

RECURSIVE Count(_, _)
Count(list, x) ==
    IF list = <<>> THEN 0
    ELSE (IF Head(list) = x THEN 1 ELSE 0) + Count(Tail(list), x)

\* each element of a sequence n times over, in order
RECURSIVE Repeat(_, _)
Repeat(seq, n) ==
    IF seq = <<>> THEN <<>>
    ELSE [i \in 1..n |-> Head(seq)] \o Repeat(Tail(seq), n)

\* a handler list without the registrations of one observer
RECURSIVE Others(_, _)
Others(list, o) ==
    IF list = <<>> THEN <<>>
    ELSE (IF Head(list) = o THEN <<>> ELSE <<Head(list)>>) \o Others(Tail(list), o)

\* the task resumed fetchChatHistory with a response that carries messages
PageReceived(r) == r # <<>> /\ r[1].kind = "ok"

\* the entries of a session that carry an id
WithId(session, id) == SelectSeq(session, LAMBDA m : m.id = id)

Sorted(session) ==
    \A i, j \in 1..Len(session) : i < j => session[i].timestamp <= session[j].timestamp

\* the order of the statuses a message goes through
Rank(st) == CASE st = "sending" -> 1 [] st = "sent" -> 2
              [] st = "delivered" -> 3 [] st = "read" -> 4 [] OTHER -> 0

\* a status change the status rule allows: none, an advance in the order, or
\* Sending to Failed; Failed (and a status outside the order) only stays
Allowed(a, b) ==
    \/ a = b
    \/ a = "sending" /\ b = "failed"
    \/ Rank(a) > 0 /\ Rank(a) <= Rank(b)

\* the last task was an input change with non-empty content (it ran at `at`)
Typed == lastOp = "handleTyping" /\ newMessage # ""

\* the step is a task (time passing is no task) of the given kind
TaskStep(op) == now' = now /\ lastOp' = op

(***************************************************************************)
(* C1 (as claimed): after disconnect(), and until connect() is called     *)
(* again, no task opens a transport and no task schedules a reconnect.    *)
(* The close event of the socket disconnect() closed runs onclose, which  *)
(* calls attemptReconnect: the claim fails.                               *)
(***************************************************************************)
C1_NoReconnectAfterDisconnect ==
    explicitlyClosed => (~opened /\ scheduled = 0)

(***************************************************************************)
(* C2 (as claimed): a connect() call made while the connection is         *)
(* Connecting or Connected constructs no WebSocket.  connect() has no     *)
(* guard: the claim fails.                                                 *)
(***************************************************************************)
C2_ConnectIsCoalesced ==
    [][(lastOp' = "connect" /\ (Connecting \/ Connected)) => ~opened']_vars

(***************************************************************************)
(* C3 (as claimed): at most one transport, connecting or open, can reach  *)
(* the service with its events.  A second connect() leaves the first      *)
(* socket alive with its callbacks installed: the claim fails.            *)
(***************************************************************************)
C3_OneLiveTransport ==
    Cardinality(LiveTransports) <= 1

C6_TraceIsWalk ==
    [][IsWalk(<<status>> \o emitted')]_vars

(***************************************************************************)
(* C7: sendMessage hands the envelope to the transport and returns true   *)
(* exactly when the socket this.ws refers to is open; otherwise it        *)
(* returns false and transmits nothing; and no other task of the service  *)
(* transmits anything (nothing is stored and sent later).                 *)
(***************************************************************************)
C7_SendExactlyWhenOpen ==
    /\ lastOp = "sendMessage" =>
          /\ sendResult = Connected
          /\ Len(transmitted) = IF Connected THEN 1 ELSE 0
    /\ lastOp # "sendMessage" => transmitted = <<>>

C7_Witness ==
    lastOp = "sendMessage" /\ sendResult /\ transmitted = <<"chat_message">>

C10_LocalSendMintsFreshId ==
    [][lastOp' \in {"handleSendMessage", "handleFileUpload"} =>
          /\ Len(messages') = Len(messages) + 1
          /\ SubSeq(messages', 1, Len(messages)) = messages
          /\ messages'[Len(messages')].status = "sending"
          /\ \A i \in 1..Len(messages) :
                messages[i].id # messages'[Len(messages')].id]_vars

(***************************************************************************)
(* C11 (as claimed): when the acknowledgment of a chat message just       *)
(* transmitted reaches the provider's handler, the Sending entry of that  *)
(* message gets a durable id and status Sent, in place, with its content, *)
(* and the session keeps its length.  The handler only adds the envelope  *)
(* to the provider's log; the Chat component reads no inbound envelope.   *)
(***************************************************************************)
C11_AckReconciles ==
    [][(/\ lastOp = "handleSendMessage" /\ transmitted = <<"chat_message">>
        /\ lastOp' = "onmessage" /\ frame' \in Acks /\ added' # <<>>) =>
          /\ Len(messages') = Len(messages)
          /\ LET n == Len(messages)
             IN  /\ messages'[n].status = "sent"
                 /\ messages'[n].id # messages[n].id
                 /\ messages'[n].content = messages[n].content
                 /\ SubSeq(messages', 1, n - 1) = SubSeq(messages, 1, n - 1)]_vars

(***************************************************************************)
(* C12 (as claimed): loading a page the session already consists of (the  *)
(* page loaded first) leaves the session as it is, and no load adds a     *)
(* second entry for an id the session already holds.  getChatHistory      *)
(* takes no page number, so load-more receives the first page again and   *)
(* prepends it.                                                            *)
(***************************************************************************)
C12_MergeIsIdempotent ==
    [][(lastOp' = "fetchChatHistory" /\ PageReceived(response')) =>
          /\ messages = newMessages(response'[1].messages) => messages' = messages
          /\ \A i \in 1..Len(messages) :
                Len(WithId(messages', messages[i].id)) <= Len(WithId(messages, messages[i].id))]_vars

(***************************************************************************)
(* C13 (as claimed): no two entries of the session carry the same id.     *)
(***************************************************************************)
C13_UniqueIds ==
    \A i, j \in 1..Len(messages) : i # j => messages[i].id # messages[j].id

(***************************************************************************)
(* C14 (as claimed): the session is always sorted ascending by timestamp. *)
(***************************************************************************)
C14_SortedByTimestamp ==
    Sorted(messages)

(***************************************************************************)
(* C15 (as claimed): a load-more whose page is not strictly older than    *)
(* the session's earliest entry leaves the session unchanged and signals  *)
(* an error to the caller.  The page is prepended without any check.      *)
(***************************************************************************)
C15_LatePageRejected ==
    [][(/\ lastOp' = "fetchChatHistory" /\ PageReceived(response') /\ page' > 1
        /\ messages # <<>> /\ response'[1].messages # <<>>
        /\ LET pg == response'[1].messages
           IN  pg[Len(pg)].timestamp >= messages[1].timestamp) =>
          (messages' = messages /\ signalled' # "")]_vars

C17_DropFailsPending ==
    [][(/\ lastOp = "handleSendMessage" /\ transmitted = <<"chat_message">>
        /\ lastOp' \in Drops) =>
          messages'[Len(messages')].status = "failed"]_vars

C19_StatusNeverRegresses ==
    [][\A i \in 1..Len(messages), j \in 1..Len(messages') :
          messages[i].id = messages'[j].id =>
              Allowed(messages[i].status, messages'[j].status)]_vars

\* the user's own message 101, already in the session as delivered, was
\* loaded again by a load-more and got its status assigned again
C19_Witness ==
    /\ lastOp = "fetchChatHistory" /\ page = 2
    /\ Len(WithId(messages, 101)) = 2
    /\ \A i \in 1..Len(messages) : messages[i].id = 101 => messages[i].status = "delivered"

(***************************************************************************)
(* C20: among the input changes and the typing timer, an input change     *)
(* with non-empty content                                                  *)
(*  - sends exactly one typing(true) when the task before it was not such *)
(*    a change (it is the first of its run),                               *)
(*  - sends nothing when it comes less than 1000 ms after such a change;  *)
(* after the last change the clock cannot pass 1000 ms without the timer  *)
(* running, and the timer task runs exactly 1000 ms after the last change *)
(* and sends exactly one typing(false).  Nothing else sends a signal.     *)
(***************************************************************************)
C20_TypingDebounce ==
    /\ [](Typed => (now <= at + 1000 /\ typingTimeout = "pending"))
    /\ [][/\ (TaskStep("handleTyping") /\ newMessage' # "" /\ ~Typed) =>
                submitted' = <<"typing_true">>
          /\ (TaskStep("handleTyping") /\ newMessage' # "" /\ Typed /\ now < at + 1000) =>
                submitted' = <<>>
          /\ TaskStep("typingTimer") =>
                (Typed /\ now = at + 1000 /\ submitted' = <<"typing_false">>)
          /\ now' # now => submitted' = submitted]_vars

\* the timer of a change made at 900 ms runs at 1900 ms and sends typing(false)
C20_Witness ==
    /\ lastOp = "typingTimer" /\ now = 1900 /\ at = 1900
    /\ submitted = <<"typing_false">> /\ ~isTyping

(***************************************************************************)
(* C21 (as claimed): a send made while the typing tracker is typing (its  *)
(* typing(true) was handed to the send path and no typing(false) since)   *)
(* hands typing(false) to the send path in the same task and leaves no    *)
(* quiet-period timer pending.  handleSendMessage clears the timer and     *)
(* the isTyping flag but sends the chat envelope only: the claim fails.   *)
(***************************************************************************)
C21_SendClearsTyping ==
    [][(lastOp' = "handleSendMessage" /\ lastSignal = "typing_true") =>
          /\ Count(submitted', "typing_false") = 1
          /\ typingTimeout' # "pending"]_vars

(***************************************************************************)
(* C22 (as claimed): when disconnect() has returned, no reconnect timer   *)
(* of the service is pending.  disconnect() cancels the one timer whose   *)
(* id this.reconnectTimeout holds; a timer scheduled before it by another *)
(* socket's close survives: the claim fails.                              *)
(***************************************************************************)
C22_NoTimerAfterDisconnect ==
    lastOp = "disconnect" => PendingTimers = 0

C24_FailureSchedulesReconnect ==
    Count(emitted, "error") > 0 =>
        /\ status = "disconnected"
        /\ scheduled > 0
        /\ PendingTimers > 0

(***************************************************************************)
(* C25: the onmessage task of a frame that does not parse calls no        *)
(* message handler and adds nothing to the provider's log; it changes no  *)
(* field of the service and no socket (the transport stays open), reports *)
(* no status, schedules no reconnect and opens nothing; and when the next *)
(* task is the onmessage of a frame that parses, the handlers are called  *)
(* for it from the first registered one on.                                *)
(***************************************************************************)
C25_MalformedIsDropped ==
    [][/\ (lastOp' = "onmessage" /\ frame' = "malformed") =>
             /\ invoked' = <<>> /\ added' = <<>> /\ threw' = <<>>
             /\ svcVars' = svcVars /\ status' = status
             /\ emitted' = <<>> /\ scheduled' = 0 /\ ~opened'
       /\ (/\ lastOp = "onmessage" /\ frame = "malformed"
           /\ lastOp' = "onmessage" /\ frame' # "malformed"
           /\ messageHandlers # <<>>) =>
             (invoked' # <<>> /\ invoked'[1] = messageHandlers[1])]_vars

\* a frame that does not parse arrived on the open connection while two
\* handlers were registered
C25_Witness ==
    /\ lastOp = "onmessage" /\ frame = "malformed" /\ Connected
    /\ Len(messageHandlers) = 2 /\ invoked = <<>>

(***************************************************************************)
(* C26 (as claimed): the onmessage task of an envelope whose kind is not  *)
(* recognized adds nothing to the provider's received-message log.        *)
(* handleWebSocketMessage calls addMessage before it looks at the kind:   *)
(* the claim fails.                                                        *)
(***************************************************************************)
C26_UnknownKindNotStored ==
    (lastOp = "onmessage" /\ frame = "unknown_kind") => added = <<>>

(***************************************************************************)
(* C27 (as claimed): whatever task runs, every entry a local send has     *)
(* appended to the chat session (its status is Sending) is still in the   *)
(* session afterwards (an entry with the same id).  The continuation of a *)
(* page-1 history fetch replaces the session by the fetched page, which   *)
(* drops the entries appended while the fetch was in flight: the claim    *)
(* fails.                                                                  *)
(***************************************************************************)
C27_EntriesAreKept ==
    [][\A i \in 1..Len(messages) :
          messages[i].status = "sending" =>
              \E j \in 1..Len(messages') : messages'[j].id = messages[i].id]_vars

(***************************************************************************)
(* C28 (as claimed): a task hands typing(false) to the send path only     *)
(* when the last typing signal handed to it was typing(true), and hands   *)
(* typing(true) to it only when the last one was not typing(true) (none   *)
(* yet, or typing(false)).  Emptying the input sends typing(false)        *)
(* whatever was sent before, and a send resets isTyping without sending   *)
(* typing(false), so that the next change sends typing(true) again: the   *)
(* claim fails.                                                            *)
(***************************************************************************)
C28_SignalsAlternate ==
    [][/\ Count(submitted', "typing_false") > 0 => lastSignal = "typing_true"
       /\ Count(submitted', "typing_true") > 0 => lastSignal # "typing_true"]_vars

(***************************************************************************)
(* C29 (as claimed): when a message handler throws in the onmessage task  *)
(* of a parsed envelope, the handlers registered after it are still       *)
(* called for that envelope: all registered handlers are called, in       *)
(* order.  The forEach runs inside the try block, so the exception ends   *)
(* it: the claim fails.                                                    *)
(***************************************************************************)
C29_ThrowerDoesNotStopOthers ==
    (lastOp = "onmessage" /\ threw # <<>>) => invoked = messageHandlers

(***************************************************************************)
(* C30 (as claimed): when two history fetches are awaiting their          *)
(* responses, the session that results from the two responses is the same *)
(* whichever of them is received first.  The continuation merges each     *)
(* response into the session as it stands on arrival (a page-1 response   *)
(* replaces it, another one is put in front of it) and never asks which   *)
(* call is the latest: the claim fails.                                    *)
(***************************************************************************)
C30_OrderIndependent ==
    \A n1, n2 \in PageNums :
        (inflight[n1] > 0 /\ inflight[n2] > 0 /\ (n1 = n2 => inflight[n1] > 1)) =>
            \A r1, r2 \in {r \in Responses : r.kind = "ok"} :
                LET after(prev, n, r) == mergePage(prev, newMessages(r.messages), n)
                IN  after(after(messages, n1, r1), n2, r2)
                      = after(after(messages, n2, r2), n1, r1)

=============================================================================
